---- MODULE Spec2Model ----
(***************************************************************************)
(* The labyrinth server (daedalus) and its solver (icarus).                *)
(*                                                                         *)
(* The server keeps one maze (currentMaze) and the list of scores.  The    *)
(* awake handler builds a new maze with createMaze; the move handler moves *)
(* Icarus through it.  createMaze is modelled loop iteration by loop       *)
(* iteration, every random draw being a nondeterministic choice.           *)
(***************************************************************************)
EXTENDS Integers, Sequences, FiniteSets, TLC

VARIABLES
    width,        \* viper "width"
    height,       \* viper "height"
    currentMaze,  \* the package variable: <<>> (nil) or <<maze>>
    scores,       \* the package variable scores
    pc,           \* where the awake handler stands inside createMaze
    m,            \* createMaze's local m: <<>> or <<maze>>
    gen,          \* the other locals of createMaze and of the generator it runs
    req,          \* the request the last step handled
    reply,        \* the reply to it
    okMoves,      \* history: Move* calls that returned nil since the last awake
    strategy,     \* history: the generator the last createMaze ran
    times,        \* viper "times"
    nav,          \* the solver: its call stack and position
    hist          \* history: what RunIcarus has sent and the steps of each victory

vars == <<width, height, currentMaze, scores, pc, m, gen, req, reply, okMoves,
          strategy, times, nav, hist>>

\* Grids of at most MaxCells rooms are explored.
MaxCells == 9
\* A client that moves freely stops walking after MaxSteps steps.
MaxSteps == 4
\* The scores list is followed up to MaxScores entries.
MaxScores == 2
\* RunIcarus is followed while the mazes it asks for hold at most MaxRooms rooms
\* together.
MaxRooms == 9
\* Repeated runs are followed on grids of at most MaxRunCells rooms, for at most
\* MaxRuns runs.
MaxRunCells == 6
MaxRuns == 2
\* A solver whose requests can be lost is followed on grids of at most
\* MaxLossyCells rooms, through at most MaxLost lost requests, while at most
\* MaxDepth calls of nextMove are open.
MaxLossyCells == 6
MaxLost == 1
MaxDepth == 6

----------------------------------------------------------------------------
(* mazelib: Survey, Room, Coordinate *)

Survey(t, r, b, l) == [Top |-> t, Right |-> r, Bottom |-> b, Left |-> l]

NoWalls == Survey(FALSE, FALSE, FALSE, FALSE)

AllWalls == Survey(TRUE, TRUE, TRUE, TRUE)

Room(w) == [Walls |-> w, Start |-> FALSE, Treasure |-> FALSE]

Coordinate(cx, cy) == [X |-> cx, Y |-> cy]

RmWall(room, dir) ==
    CASE dir = "N" -> [room EXCEPT !.Walls.Top = FALSE]
      [] dir = "S" -> [room EXCEPT !.Walls.Bottom = FALSE]
      [] dir = "E" -> [room EXCEPT !.Walls.Right = FALSE]
      [] dir = "W" -> [room EXCEPT !.Walls.Left = FALSE]
      [] OTHER -> room

IsNil(c) == c.X = -1

ErrVictory == "Victory"

ErrWall == "Can't walk through walls"

ErrBounds == "room outside of maze boundaries"

NoErr == ""

----------------------------------------------------------------------------
(* type Maze and its methods *)

emptyMaze(xSize, ySize) ==
    [rooms |-> [cy \in 0..(ySize - 1) |-> [cx \in 0..(xSize - 1) |-> Room(NoWalls)]],
     start |-> Coordinate(0, 0),
     end |-> Coordinate(0, 0),
     icarus |-> Coordinate(0, 0),
     StepsTaken |-> 0]

fullMaze(xSize, ySize) ==
    [emptyMaze(xSize, ySize) EXCEPT
        !.rooms = [cy \in 0..(ySize - 1) |-> [cx \in 0..(xSize - 1) |-> Room(AllWalls)]]]

Height(z) == Cardinality(DOMAIN z.rooms)

Width(z) == Cardinality(DOMAIN z.rooms[0])

\* GetRoom's bounds test: TRUE when it returns the error.
GetRoomErr(z, cx, cy) == cx < 0 \/ cy < 0 \/ cx >= Width(z) \/ cy >= Height(z)

GetRoom(z, cx, cy) ==
    IF GetRoomErr(z, cx, cy)
    THEN [room |-> Room(NoWalls), err |-> ErrBounds]
    ELSE [room |-> z.rooms[cy][cx], err |-> NoErr]

SetStartPoint(z, cx, cy) ==
    LET g == GetRoom(z, cx, cy) IN
    IF g.err # NoErr THEN z
    ELSE IF g.room.Treasure THEN z
    ELSE [z EXCEPT !.rooms[cy][cx].Start = TRUE, !.icarus = Coordinate(cx, cy)]

SetTreasure(z, cx, cy) ==
    LET g == GetRoom(z, cx, cy) IN
    IF g.err # NoErr THEN z
    ELSE IF g.room.Start THEN z
    ELSE [z EXCEPT !.rooms[cy][cx].Treasure = TRUE, !.end = Coordinate(cx, cy)]

Discover(z, cx, cy) ==
    LET g == GetRoom(z, cx, cy) IN
    IF g.err # NoErr THEN NoWalls ELSE g.room.Walls

\* LookAround comparing the X coordinates alone.
LookAroundOnlyX(z) ==
    IF z.end.X = z.icarus.X
    THEN [s |-> NoWalls, e |-> ErrVictory]
    ELSE [s |-> Discover(z, z.icarus.X, z.icarus.Y), e |-> NoErr]

LookAround(z) ==
    IF z.end.X = z.icarus.X /\ z.end.Y = z.icarus.Y
    THEN [s |-> NoWalls, e |-> ErrVictory]
    ELSE [s |-> Discover(z, z.icarus.X, z.icarus.Y), e |-> NoErr]

\* MoveLeft testing the wall on the right.
MoveLeftWrongWall(z) ==
    LET l == LookAround(z) IN
    IF l.e # NoErr THEN [z |-> z, err |-> l.e]
    ELSE IF l.s.Right THEN [z |-> z, err |-> ErrWall]
    ELSE IF GetRoomErr(z, z.icarus.X - 1, z.icarus.Y) THEN [z |-> z, err |-> ErrBounds]
    ELSE [z |-> [z EXCEPT !.icarus = Coordinate(z.icarus.X - 1, z.icarus.Y),
                          !.StepsTaken = @ + 1],
          err |-> NoErr]

\* The four Move methods differ in the wall they test and the cell they go to.
MoveLeft(z) ==
    LET l == LookAround(z) IN
    IF l.e # NoErr THEN [z |-> z, err |-> l.e]
    ELSE IF l.s.Left THEN [z |-> z, err |-> ErrWall]
    ELSE IF GetRoomErr(z, z.icarus.X - 1, z.icarus.Y) THEN [z |-> z, err |-> ErrBounds]
    ELSE [z |-> [z EXCEPT !.icarus = Coordinate(z.icarus.X - 1, z.icarus.Y),
                          !.StepsTaken = @ + 1],
          err |-> NoErr]

MoveRight(z) ==
    LET l == LookAround(z) IN
    IF l.e # NoErr THEN [z |-> z, err |-> l.e]
    ELSE IF l.s.Right THEN [z |-> z, err |-> ErrWall]
    ELSE IF GetRoomErr(z, z.icarus.X + 1, z.icarus.Y) THEN [z |-> z, err |-> ErrBounds]
    ELSE [z |-> [z EXCEPT !.icarus = Coordinate(z.icarus.X + 1, z.icarus.Y),
                          !.StepsTaken = @ + 1],
          err |-> NoErr]

\* MoveUp without the return on LookAround's error.
MoveUpAfterVictory(z) ==
    LET l == LookAround(z) IN
    IF l.s.Top THEN [z |-> z, err |-> ErrWall]
    ELSE IF GetRoomErr(z, z.icarus.X, z.icarus.Y - 1) THEN [z |-> z, err |-> ErrBounds]
    ELSE [z |-> [z EXCEPT !.icarus = Coordinate(z.icarus.X, z.icarus.Y - 1),
                          !.StepsTaken = @ + 1],
          err |-> NoErr]

MoveUp(z) ==
    LET l == LookAround(z) IN
    IF l.e # NoErr THEN [z |-> z, err |-> l.e]
    ELSE IF l.s.Top THEN [z |-> z, err |-> ErrWall]
    ELSE IF GetRoomErr(z, z.icarus.X, z.icarus.Y - 1) THEN [z |-> z, err |-> ErrBounds]
    ELSE [z |-> [z EXCEPT !.icarus = Coordinate(z.icarus.X, z.icarus.Y - 1),
                          !.StepsTaken = @ + 1],
          err |-> NoErr]

\* MoveDown counting the step twice.
MoveDownCountsTwice(z) ==
    LET l == LookAround(z) IN
    IF l.e # NoErr THEN [z |-> z, err |-> l.e]
    ELSE IF l.s.Bottom THEN [z |-> z, err |-> ErrWall]
    ELSE IF GetRoomErr(z, z.icarus.X, z.icarus.Y + 1) THEN [z |-> z, err |-> ErrBounds]
    ELSE [z |-> [z EXCEPT !.icarus = Coordinate(z.icarus.X, z.icarus.Y + 1),
                          !.StepsTaken = @ + 2],
          err |-> NoErr]

\* MoveDown without the count of the step.
MoveDownNoCount(z) ==
    LET l == LookAround(z) IN
    IF l.e # NoErr THEN [z |-> z, err |-> l.e]
    ELSE IF l.s.Bottom THEN [z |-> z, err |-> ErrWall]
    ELSE IF GetRoomErr(z, z.icarus.X, z.icarus.Y + 1) THEN [z |-> z, err |-> ErrBounds]
    ELSE [z |-> [z EXCEPT !.icarus = Coordinate(z.icarus.X, z.icarus.Y + 1)],
          err |-> NoErr]

MoveDown(z) ==
    LET l == LookAround(z) IN
    IF l.e # NoErr THEN [z |-> z, err |-> l.e]
    ELSE IF l.s.Bottom THEN [z |-> z, err |-> ErrWall]
    ELSE IF GetRoomErr(z, z.icarus.X, z.icarus.Y + 1) THEN [z |-> z, err |-> ErrBounds]
    ELSE [z |-> [z EXCEPT !.icarus = Coordinate(z.icarus.X, z.icarus.Y + 1),
                          !.StepsTaken = @ + 1],
          err |-> NoErr]

----------------------------------------------------------------------------
(* createMaze and the three generators *)

\* rand.Intn(n): the values it can return; it panics when n <= 0.
Intn(n) == 0..(n - 1)

IntnPanics(n) == n <= 0

\* rand.Perm(4)
Perm4 == {p \in [1..4 -> 0..3] : \A i, j \in 1..4 : p[i] = p[j] => i = j}

\* rooms[cy][cx] is an index inside the slices.
InRooms(z, cx, cy) == cy \in DOMAIN z.rooms /\ cx \in DOMAIN z.rooms[cy]

\* The carve pairs of the generators; ok is FALSE when an index is out of range.
CarveEast(z, cx, cy) ==
    IF InRooms(z, cx, cy) /\ InRooms(z, cx + 1, cy)
    THEN [ok |-> TRUE,
          z |-> [z EXCEPT !.rooms[cy][cx] = RmWall(@, "E"),
                          !.rooms[cy][cx + 1] = RmWall(@, "W")]]
    ELSE [ok |-> FALSE, z |-> z]

\* CarveSouth without the RmWall of the room below.
CarveSouthOneSide(z, cx, cy) ==
    IF InRooms(z, cx, cy) /\ InRooms(z, cx, cy + 1)
    THEN [ok |-> TRUE, z |-> [z EXCEPT !.rooms[cy][cx] = RmWall(@, "S")]]
    ELSE [ok |-> FALSE, z |-> z]

CarveSouth(z, cx, cy) ==
    IF InRooms(z, cx, cy) /\ InRooms(z, cx, cy + 1)
    THEN [ok |-> TRUE,
          z |-> [z EXCEPT !.rooms[cy][cx] = RmWall(@, "S"),
                          !.rooms[cy + 1][cx] = RmWall(@, "N")]]
    ELSE [ok |-> FALSE, z |-> z]

\* The direction the scan takes at (cx, cy), the draw being d; -1 is the break.
ScanDir(z, cx, cy, d) ==
    IF cy = Height(z) - 1 /\ cx = Width(z) - 1 THEN -1
    ELSE IF cx = Width(z) - 1 THEN 1
    ELSE IF cy = Height(z) - 1 THEN 0
    ELSE d

\* The switch of createBinaryTree without its case 1.
BinaryTreeSwitchNoSouth(z, cx, cy, dir) ==
    CASE dir = 0 -> CarveEast(z, cx, cy)
      [] OTHER -> [ok |-> TRUE, z |-> z]

\* The switch of createBinaryTree.
BinaryTreeSwitch(z, cx, cy, dir) ==
    CASE dir = 0 -> CarveEast(z, cx, cy)
      [] dir = 1 -> CarveSouth(z, cx, cy)
      [] OTHER -> [ok |-> TRUE, z |-> z]

\* The switch of createBinaryTreeWithHoles.
BinaryTreeWithHolesSwitch(z, cx, cy, dir) ==
    CASE dir = 0 -> CarveEast(z, cx, cy)
      [] dir = 1 -> CarveSouth(z, cx, cy)
      [] dir = 2 -> LET e == CarveEast(z, cx, cy) IN
                    IF e.ok THEN CarveSouth(e.z, cx, cy) ELSE e
      [] OTHER -> [ok |-> TRUE, z |-> z]

\* The locals of createMaze with their zero values.
ZeroGen == [x |-> 0, y |-> 0, cells |-> <<>>, visited |-> <<>>,
            xt |-> 0, yt |-> 0, xs |-> 0, ys |-> 0]

NoReq == [op |-> "none", dir |-> ""]

Reply(status, error, message, victory, survey, panic) ==
    [status |-> status, Error |-> error, Message |-> message,
     Victory |-> victory, Survey |-> survey, panic |-> panic]

NoReply == Reply(0, FALSE, "", FALSE, NoWalls, "")

\* gin's recovery: a panic inside a handler is answered with 500 and no body.
Recovered(what) == Reply(500, FALSE, "", FALSE, NoWalls, what)

\* The solver before RunIcarus: no call of nextMove is open.
NavIdle == [pc |-> "off", x |-> 0, stack |-> <<>>, s |-> NoWalls, dir |-> "",
            ret |-> FALSE]

\* Nothing sent yet: the awake and done requests of RunIcarus, the requests that
\* makeRequest failed to send, and the value of StepsTaken at each move that
\* brought Icarus onto the treasure.
NoHist == [awakes |-> 0, dones |-> 0, lost |-> 0, won |-> <<>>]

\* The handler panics: createMaze does not return and currentMaze is not assigned.
Panic(what) ==
    /\ pc' = "idle"
    /\ m' = <<>>
    /\ gen' = ZeroGen
    /\ reply' = Recovered(what)
    /\ UNCHANGED <<width, height, currentMaze, scores, req, okMoves, strategy, times, nav, hist>>

Dims == {d \in (1..MaxCells) \X (1..MaxCells) : d[1] * d[2] <= MaxCells}

Init ==
    /\ \E d \in Dims : width = d[1] /\ height = d[2]
    /\ currentMaze = <<>>
    /\ scores = <<>>
    /\ pc = "idle"
    /\ m = <<>>
    /\ gen = ZeroGen
    /\ req = NoReq
    /\ reply = NoReply
    /\ okMoves = 0
    /\ strategy = ""
    /\ times = 0
    /\ nav = NavIdle
    /\ hist = NoHist

----------------------------------------------------------------------------
(* GetStartingPoint: initializeMaze, createMaze *)

\* createMaze is entered: the strategy is drawn and the generator starts from
\* fullMaze.
createMazeStart ==
    \E r \in Intn(5) :
        /\ gen' = ZeroGen
        /\ m' = <<fullMaze(width, height)>>
        /\ pc' = CASE r \in {0, 1, 2} -> "holes"
                   [] r = 3 -> "binary"
                   [] OTHER -> "seed"
        /\ strategy' = CASE r \in {0, 1, 2} -> "createBinaryTreeWithHoles"
                         [] r = 3 -> "createBinaryTree"
                         [] OTHER -> "createGrowingTree"
        /\ reply' = NoReply
        /\ UNCHANGED <<width, height, currentMaze, scores, okMoves, times>>

\* The scan goes on to the next cell, or the generator returns.
ScanAdvance(z, broke) ==
    LET nx == IF broke \/ gen.x + 1 >= Width(z) THEN 0 ELSE gen.x + 1
        ny == IF broke \/ gen.x + 1 >= Width(z) THEN gen.y + 1 ELSE gen.y
    IN  /\ m' = <<z>>
        /\ IF ny >= Height(z)
           THEN pc' = "place" /\ gen' = [gen EXCEPT !.x = 0, !.y = 0]
           ELSE pc' = pc /\ gen' = [gen EXCEPT !.x = nx, !.y = ny]
        /\ UNCHANGED <<width, height, currentMaze, scores, req, reply, okMoves,
                       strategy, times, nav, hist>>

\* One iteration of the inner loop of createBinaryTree.
createBinaryTreeStep ==
    /\ pc = "binary"
    /\ \E d \in Intn(2) :
        LET dir == ScanDir(m[1], gen.x, gen.y, d)
            c == BinaryTreeSwitch(m[1], gen.x, gen.y, dir)
        IN  IF c.ok THEN ScanAdvance(c.z, dir = -1) ELSE Panic("index")

\* The iteration, were dir drawn from the three cases of the switch.
createBinaryTreeWithHolesStepThree ==
    /\ pc = "holes"
    /\ \E d \in Intn(3) :
        LET dir == ScanDir(m[1], gen.x, gen.y, d)
            c == BinaryTreeWithHolesSwitch(m[1], gen.x, gen.y, dir)
        IN  IF c.ok THEN ScanAdvance(c.z, dir = -1) ELSE Panic("index")

\* One iteration of the inner loop of createBinaryTreeWithHoles.
createBinaryTreeWithHolesStep ==
    /\ pc = "holes"
    /\ \E d \in Intn(2) :
        LET dir == ScanDir(m[1], gen.x, gen.y, d)
            c == BinaryTreeWithHolesSwitch(m[1], gen.x, gen.y, dir)
        IN  IF c.ok THEN ScanAdvance(c.z, dir = -1) ELSE Panic("index")

\* createGrowingTree up to its loop: visited, cells and the seed.
createGrowingTreeSeed ==
    /\ pc = "seed"
    /\ IF IntnPanics(Height(m[1]) - 1) \/ IntnPanics(Width(m[1]) - 1)
       THEN Panic("Intn")
       ELSE \E y \in Intn(Height(m[1]) - 1), x \in Intn(Width(m[1]) - 1) :
            /\ gen' = [gen EXCEPT
                  !.cells = <<Coordinate(x, y)>>,
                  !.visited = [[i \in 0..(Width(m[1]) - 1) |->
                                  [j \in 0..(Height(m[1]) - 1) |-> FALSE]]
                               EXCEPT ![x][y] = TRUE]]
            /\ pc' = "growing"
            /\ UNCHANGED <<width, height, currentMaze, scores, m, req, reply,
                           okMoves, strategy, times, nav, hist>>

\* The test, were the neighbour below left out of it.
NoUnvisitedNoDown(z, visited, x, y) ==
    /\ (x = 0 \/ visited[x - 1][y])
    /\ (x = Width(z) - 1 \/ visited[x + 1][y])
    /\ (y = 0 \/ visited[x][y - 1])

\* The test that the active cell has no unvisited neighbour.
NoUnvisited(z, visited, x, y) ==
    /\ (x = 0 \/ visited[x - 1][y])
    /\ (x = Width(z) - 1 \/ visited[x + 1][y])
    /\ (y = 0 \/ visited[x][y - 1])
    /\ (y = Height(z) - 1 \/ visited[x][y + 1])

\* One case of the switch over the shuffled directions; st holds active, cells,
\* the maze and visited.
GrowCase(st, x, y, d) ==
    IF IsNil(st.active) THEN st
    ELSE CASE d = 0 /\ y > 0 /\ ~st.visited[x][y - 1] ->
                [active |-> [st.active EXCEPT !.X = -1],
                 cells |-> Append(st.cells, Coordinate(x, y - 1)),
                 z |-> [st.z EXCEPT !.rooms[y - 1][x] = RmWall(@, "S"),
                                    !.rooms[y][x] = RmWall(@, "N")],
                 visited |-> [st.visited EXCEPT ![x][y - 1] = TRUE]]
           [] d = 1 /\ y < Height(st.z) - 1 /\ ~st.visited[x][y + 1] ->
                [active |-> [st.active EXCEPT !.X = -1],
                 cells |-> Append(st.cells, Coordinate(x, y + 1)),
                 z |-> [st.z EXCEPT !.rooms[y][x] = RmWall(@, "S"),
                                    !.rooms[y + 1][x] = RmWall(@, "N")],
                 visited |-> [st.visited EXCEPT ![x][y + 1] = TRUE]]
           [] d = 2 /\ x > 0 /\ ~st.visited[x - 1][y] ->
                [active |-> [st.active EXCEPT !.X = -1],
                 cells |-> Append(st.cells, Coordinate(x - 1, y)),
                 z |-> [st.z EXCEPT !.rooms[y][x] = RmWall(@, "W"),
                                    !.rooms[y][x - 1] = RmWall(@, "E")],
                 visited |-> [st.visited EXCEPT ![x - 1][y] = TRUE]]
           [] d = 3 /\ x < Width(st.z) - 1 /\ ~st.visited[x + 1][y] ->
                [active |-> [st.active EXCEPT !.X = -1],
                 cells |-> Append(st.cells, Coordinate(x + 1, y)),
                 z |-> [st.z EXCEPT !.rooms[y][x] = RmWall(@, "E"),
                                    !.rooms[y][x + 1] = RmWall(@, "W")],
                 visited |-> [st.visited EXCEPT ![x + 1][y] = TRUE]]
           [] OTHER -> st

\* The loop over dirs, from its i-th element on.
RECURSIVE GrowDirs(_, _, _, _, _)
GrowDirs(st, x, y, dirs, i) ==
    IF i > Len(dirs) THEN st
    ELSE GrowDirs(GrowCase(st, x, y, dirs[i]), x, y, dirs, i + 1)

\* One iteration of the loop of createGrowingTree.
createGrowingTreeStep ==
    /\ pc = "growing"
    /\ Len(gen.cells) > 0
    /\ \E dirs \in Perm4 :
        LET active == gen.cells[Len(gen.cells)]
            x == active.X
            y == active.Y
            cells == IF NoUnvisited(m[1], gen.visited, x, y)
                     THEN SubSeq(gen.cells, 1, Len(gen.cells) - 1)
                     ELSE gen.cells
            st == GrowDirs([active |-> active, cells |-> cells, z |-> m[1],
                            visited |-> gen.visited], x, y, dirs, 1)
        IN  /\ m' = <<st.z>>
            /\ IF Len(st.cells) > 0
               THEN /\ pc' = pc
                    /\ gen' = [gen EXCEPT !.cells = st.cells, !.visited = st.visited]
               ELSE /\ pc' = "place"
                    /\ gen' = [gen EXCEPT !.cells = st.cells, !.visited = st.visited]
    /\ UNCHANGED <<width, height, currentMaze, scores, req, reply, okMoves,
                   strategy, times, nav, hist>>

\* The treasure is placed and the starting point drawn for the first time.
createMazePlace ==
    /\ pc = "place"
    /\ IF IntnPanics(width - 1) \/ IntnPanics(height - 1)
       THEN Panic("Intn")
       ELSE \E xt \in Intn(width - 1), yt \in Intn(height - 1),
               xs \in Intn(width - 1), ys \in Intn(height - 1) :
            /\ m' = <<SetTreasure(m[1], xt, yt)>>
            /\ gen' = [gen EXCEPT !.xt = xt, !.yt = yt, !.xs = xs, !.ys = ys]
            /\ pc' = "resample"
            /\ UNCHANGED <<width, height, currentMaze, scores, req, reply,
                           okMoves, strategy, times, nav, hist>>

\* The resample loop never entered.
TooCloseNever(g) == FALSE

\* The loop condition, were it to compare the two rooms.
TooCloseSameRoom(g) == g.xs = g.xt /\ g.ys = g.yt

\* The loop condition of the resample loop.
TooClose(g) == g.xs + g.ys = g.xt + g.yt

\* One iteration of the resample loop.
createMazeResample ==
    /\ pc = "resample"
    /\ TooClose(gen)
    /\ \E xs \in Intn(width - 1), ys \in Intn(height - 1) :
        gen' = [gen EXCEPT !.xs = xs, !.ys = ys]
    /\ UNCHANGED <<width, height, currentMaze, scores, pc, m, req, reply,
                   okMoves, strategy, times, nav, hist>>

\* createMazeReturn, were a new maze to start the scores afresh.
createMazeReturnClearsScores ==
    /\ pc = "resample"
    /\ gen.xs + gen.ys # gen.xt + gen.yt
    /\ currentMaze' = <<SetStartPoint(m[1], gen.xs, gen.ys)>>
    /\ reply' = Reply(200, FALSE, "", FALSE,
                      Discover(currentMaze'[1], gen.xs, gen.ys), "")
    /\ pc' = "idle"
    /\ m' = <<>>
    /\ gen' = ZeroGen
    /\ okMoves' = 0
    /\ scores' = <<>>
    /\ UNCHANGED <<width, height, req, strategy, times, nav, hist>>

\* The survey GetStartingPoint answers with.
StartSurvey(z) == Discover(z, z.icarus.X, z.icarus.Y)

\* The loop is left, the starting point set; createMaze returns, the maze becomes
\* currentMaze and GetStartingPoint answers with the survey of Icarus's room.
createMazeReturn ==
    /\ pc = "resample"
    /\ ~TooClose(gen)
    /\ LET z == SetStartPoint(m[1], gen.xs, gen.ys) IN
        /\ currentMaze' = <<z>>
        /\ reply' = Reply(200, FALSE, "", FALSE, StartSurvey(z), "")
    /\ pc' = "idle"
    /\ m' = <<>>
    /\ gen' = ZeroGen
    /\ okMoves' = 0
    /\ UNCHANGED <<width, height, scores, req, strategy, times, nav, hist>>

----------------------------------------------------------------------------
(* MoveDirection *)

Directions == {"up", "right", "down", "left"}

\* The switch over the direction parameter.
MoveSwitch(z, token) ==
    CASE token = "left" -> MoveLeft(z)
      [] token = "right" -> MoveRight(z)
      [] token = "down" -> MoveDown(z)
      [] token = "up" -> MoveUp(z)
      [] OTHER -> [z |-> z, err |-> NoErr]

VictoryMessage(n) == "Victory achieved in " \o ToString(n) \o " steps \n"

\* What the handler does to currentMaze and scores, and what it answers; moved
\* tells that a Move method was called and returned nil.
MoveDirection(cm, sc, token) ==
    IF cm = <<>>
    THEN [cm |-> cm, scores |-> sc, reply |-> Recovered("nil"), moved |-> FALSE]
    ELSE LET mv == MoveSwitch(cm[1], token)
             l == LookAround(mv.z)
             moved == token \in Directions /\ mv.err = NoErr
         IN  IF mv.err # NoErr
             THEN [cm |-> <<mv.z>>, scores |-> sc,
                   reply |-> Reply(409, TRUE, mv.err, FALSE, NoWalls, ""),
                   moved |-> moved]
             ELSE IF l.e = ErrVictory
             THEN [cm |-> <<mv.z>>, scores |-> Append(sc, mv.z.StepsTaken),
                   reply |-> Reply(200, FALSE, VictoryMessage(mv.z.StepsTaken),
                                   TRUE, l.s, ""),
                   moved |-> moved]
             ELSE IF l.e # NoErr
             THEN [cm |-> <<mv.z>>, scores |-> sc, reply |-> Recovered("nil"),
                   moved |-> moved]
             ELSE [cm |-> <<mv.z>>, scores |-> sc,
                   reply |-> Reply(200, FALSE, "", FALSE, l.s, ""),
                   moved |-> moved]

\* The history after the handler did h: a move that arrived on the treasure is
\* written down with its step count.
Arrived(h) ==
    IF h.moved /\ h.reply.Victory
    THEN [hist EXCEPT !.won = Append(@, h.cm[1].StepsTaken)]
    ELSE hist

----------------------------------------------------------------------------
(* A client that wakes when the server has no maze and then sends any move *)

Tokens == Directions \cup {"diagonal"}

Awake ==
    /\ pc = "idle"
    /\ currentMaze = <<>>
    /\ req' = [op |-> "awake", dir |-> ""]
    /\ nav' = nav
    /\ hist' = hist
    /\ createMazeStart

ClientMove(token) ==
    /\ pc = "idle"
    /\ LET h == MoveDirection(currentMaze, scores, token) IN
        /\ h.cm # <<>> => h.cm[1].StepsTaken <= MaxSteps
        /\ Len(h.scores) <= MaxScores
        /\ currentMaze' = h.cm
        /\ scores' = h.scores
        /\ reply' = h.reply
        /\ okMoves' = IF h.moved THEN okMoves + 1 ELSE okMoves
        /\ hist' = Arrived(h)
    /\ req' = [op |-> "move", dir |-> token]
    /\ UNCHANGED <<width, height, pc, m, gen, strategy, times, nav>>

Next ==
    \/ Awake
    \/ createBinaryTreeStep
    \/ createBinaryTreeWithHolesStep
    \/ createGrowingTreeSeed
    \/ createGrowingTreeStep
    \/ createMazePlace
    \/ createMazeResample
    \/ createMazeReturn
    \/ \E token \in Tokens : ClientMove(token)

Spec == Init /\ [][Next]_vars

\* createGrowingTree is sequential code: its loop takes its next iteration.
SpecGrowFair == Spec /\ WF_vars(createGrowingTreeStep)

----------------------------------------------------------------------------
(* icarus: RunIcarus, solveMaze, nextMove *)

\* opposite, were every direction its own opposite.
oppositeSame(d) == d

opposite(d) ==
    CASE d = "up" -> "down"
      [] d = "down" -> "up"
      [] d = "left" -> "right"
      [] d = "right" -> "left"
      [] OTHER -> ""

\* ToReply: the fields of the body; a reply without a body gives the zero Reply.
ToReply(rp) ==
    [Survey |-> rp.Survey, Victory |-> rp.Victory, Message |-> rp.Message,
     Error |-> rp.Error]

\* Move, given the reply to its request: victory is the ErrVictory value itself.
Move(direction, rp) ==
    IF direction \in {"left", "right", "up", "down"}
    THEN LET r == ToReply(rp) IN
         IF r.Victory THEN [s |-> r.Survey, err |-> ErrVictory, victory |-> TRUE]
         ELSE [s |-> r.Survey, err |-> r.Message, victory |-> FALSE]
    ELSE [s |-> NoWalls, err |-> "invalid direction", victory |-> FALSE]

\* The candidates of nextMove without the way up.
PossibilitiesNoUp(s, dir) ==
    (IF ~s.Bottom /\ dir # "up" THEN <<"down">> ELSE <<>>)
    \o (IF ~s.Left /\ dir # "right" THEN <<"left">> ELSE <<>>)
    \o (IF ~s.Right /\ dir # "left" THEN <<"right">> ELSE <<>>)

\* The candidates of nextMove, in the order it appends them.
Possibilities(s, dir) ==
    (IF ~s.Bottom /\ dir # "up" THEN <<"down">> ELSE <<>>)
    \o (IF ~s.Left /\ dir # "right" THEN <<"left">> ELSE <<>>)
    \o (IF ~s.Right /\ dir # "left" THEN <<"right">> ELSE <<>>)
    \o (IF ~s.Top /\ dir # "down" THEN <<"up">> ELSE <<>>)

\* shuffle(p): the orders rand.Perm can give.
shuffle(p) ==
    {[i \in 1..Len(p) |-> p[t[i]]] :
        t \in {f \in [1..Len(p) -> 1..Len(p)] :
                  \A i, j \in 1..Len(p) : f[i] = f[j] => i = j}}

\* A request to /move and its handling by the server, as one step; h is what
\* MoveDirection does with the request.
Request(token, h) ==
    /\ currentMaze' = h.cm
    /\ scores' = h.scores
    /\ reply' = h.reply
    /\ okMoves' = IF h.moved THEN okMoves + 1 ELSE okMoves
    /\ hist' = Arrived(h)
    /\ req' = [op |-> "move", dir |-> token]
    /\ UNCHANGED <<width, height, pc, m, gen, strategy, times>>

\* A step of the solver that sends nothing.
Internal ==
    /\ req' = NoReq
    /\ UNCHANGED <<width, height, currentMaze, scores, pc, m, gen, reply,
                   okMoves, strategy, times, hist>>

\* RunIcarus calls solveMaze, which sends awake.
solveMaze ==
    /\ nav.pc = "run"
    /\ nav.x < times
    /\ pc = "idle"
    /\ nav' = [nav EXCEPT !.pc = "awake"]
    /\ req' = [op |-> "awake", dir |-> ""]
    /\ hist' = [hist EXCEPT !.awakes = @ + 1]
    /\ createMazeStart

\* awake returns the survey of the reply and nextMove(s, "") is called.
awake ==
    /\ nav.pc = "awake"
    /\ pc = "idle"
    /\ nav' = [nav EXCEPT !.pc = "enter", !.s = ToReply(reply).Survey,
                          !.dir = "", !.stack = <<>>]
    /\ Internal

\* nextMove(s, dir) up to its loop.
nextMoveEnter ==
    /\ nav.pc = "enter"
    /\ LET p == Possibilities(nav.s, nav.dir) IN
        IF Len(p) = 0
        THEN nav' = [nav EXCEPT !.pc = "ret", !.ret = FALSE, !.s = NoWalls,
                                !.dir = ""]
        ELSE \E q \in (IF Len(p) > 1 THEN shuffle(p) ELSE {p}) :
             nav' = [nav EXCEPT !.pc = "loop", !.s = NoWalls, !.dir = "",
                        !.stack = Append(@, [possibilities |-> q, d |-> ""])]
    /\ Internal

\* The loop of nextMove takes its next candidate d and calls Move(d).
nextMoveTry ==
    /\ nav.pc = "loop"
    /\ LET top == nav.stack[Len(nav.stack)] IN
        /\ Len(top.possibilities) > 0
        /\ \E d \in {Head(top.possibilities)} :
           \E h \in {MoveDirection(currentMaze, scores, d)} :
           \E mv \in {Move(d, h.reply)} :
               /\ Request(d, h)
               /\ IF mv.victory
                  THEN nav' = [nav EXCEPT !.pc = "ret", !.ret = TRUE,
                                  !.stack = SubSeq(@, 1, Len(@) - 1)]
                  ELSE nav' = [nav EXCEPT !.pc = "enter", !.s = mv.s, !.dir = d,
                                  !.stack[Len(nav.stack)] =
                                      [possibilities |-> Tail(top.possibilities),
                                       d |-> d]]

\* The candidates are used up: nextMove returns false.
nextMoveExhausted ==
    /\ nav.pc = "loop"
    /\ Len(nav.stack[Len(nav.stack)].possibilities) = 0
    /\ nav' = [nav EXCEPT !.pc = "ret", !.ret = FALSE,
                          !.stack = SubSeq(@, 1, Len(@) - 1)]
    /\ Internal

\* The inner nextMove returned false: the step is taken back with
\* Move(opposite[d]) and the loop goes on.
nextMoveBack ==
    /\ nav.pc = "ret"
    /\ Len(nav.stack) > 0
    /\ ~nav.ret
    /\ \E d \in {opposite(nav.stack[Len(nav.stack)].d)} :
       \E h \in {MoveDirection(currentMaze, scores, d)} : Request(d, h)
    /\ nav' = [nav EXCEPT !.pc = "loop", !.stack[Len(nav.stack)].d = ""]

\* The inner nextMove returned true: so does this one.
nextMoveTrue ==
    /\ nav.pc = "ret"
    /\ Len(nav.stack) > 0
    /\ nav.ret
    /\ nav' = [nav EXCEPT !.stack = SubSeq(@, 1, Len(@) - 1)]
    /\ Internal

\* The outermost nextMove returned: solveMaze returns and the loop of RunIcarus
\* counts the run.
solveMazeReturn ==
    /\ nav.pc = "ret"
    /\ Len(nav.stack) = 0
    /\ nav' = [nav EXCEPT !.pc = "run", !.x = @ + 1]
    /\ Internal

\* The loop of RunIcarus is over: done is requested and the server exits.
RunIcarusDone ==
    /\ nav.pc = "run"
    /\ nav.x >= times
    /\ nav' = [nav EXCEPT !.pc = "done"]
    /\ req' = [op |-> "done", dir |-> ""]
    /\ pc' = "exit"
    /\ hist' = [hist EXCEPT !.dones = @ + 1]
    /\ UNCHANGED <<width, height, currentMaze, scores, m, gen, reply, okMoves,
                   strategy, times>>

\* The configurations the solver is run under: width, height and times.  On a
\* grid one room wide or high createMaze panics, and the solver is not followed.
IcarusConfigs ==
    {c \in (2..MaxRooms) \X (2..MaxRooms) \X (0..MaxRooms) :
        c[1] * c[2] <= MaxRooms /\ c[1] * c[2] * c[3] <= MaxRooms}

IcarusInit ==
    /\ \E c \in IcarusConfigs : width = c[1] /\ height = c[2] /\ times = c[3]
    /\ currentMaze = <<>>
    /\ scores = <<>>
    /\ pc = "idle"
    /\ m = <<>>
    /\ gen = ZeroGen
    /\ req = NoReq
    /\ reply = NoReply
    /\ okMoves = 0
    /\ strategy = ""
    /\ nav = [NavIdle EXCEPT !.pc = "run"]
    /\ hist = NoHist

IcarusNext ==
    \/ solveMaze
    \/ createBinaryTreeStep
    \/ createBinaryTreeWithHolesStep
    \/ createGrowingTreeSeed
    \/ createGrowingTreeStep
    \/ createMazePlace
    \/ createMazeResample
    \/ createMazeReturn
    \/ awake
    \/ nextMoveEnter
    \/ nextMoveTry
    \/ nextMoveExhausted
    \/ nextMoveBack
    \/ nextMoveTrue
    \/ solveMazeReturn
    \/ RunIcarusDone

SpecIcarus == IcarusInit /\ [][IcarusNext]_vars

\* RunIcarus with times up to MaxRuns, on the grids of at most MaxRunCells rooms
\* that createMaze accepts.
RunConfigs ==
    {c \in (2..MaxRunCells) \X (2..MaxRunCells) \X (0..MaxRuns) :
        c[1] * c[2] <= MaxRunCells}

RunsInit ==
    /\ \E c \in RunConfigs : width = c[1] /\ height = c[2] /\ times = c[3]
    /\ currentMaze = <<>>
    /\ scores = <<>>
    /\ pc = "idle"
    /\ m = <<>>
    /\ gen = ZeroGen
    /\ req = NoReq
    /\ reply = NoReply
    /\ okMoves = 0
    /\ strategy = ""
    /\ nav = [NavIdle EXCEPT !.pc = "run"]
    /\ hist = NoHist

SpecRuns == RunsInit /\ [][IcarusNext]_vars

\* The loop of nextMove takes its next candidate d and calls Move(d), and
\* makeRequest fails: nothing reaches the server, Move returns the zero Survey
\* and the error, the error is printed and nextMove(result, d) is called.
nextMoveTryLost ==
    /\ nav.pc = "loop"
    /\ hist.lost < MaxLost
    /\ LET top == nav.stack[Len(nav.stack)] IN
        /\ Len(top.possibilities) > 0
        /\ \E d \in {Head(top.possibilities)} :
               nav' = [nav EXCEPT !.pc = "enter", !.s = NoWalls, !.dir = d,
                          !.stack[Len(nav.stack)] =
                              [possibilities |-> Tail(top.possibilities), d |-> d]]
    /\ hist' = [hist EXCEPT !.lost = @ + 1]
    /\ req' = [op |-> "lost", dir |-> nav'.dir]
    /\ UNCHANGED <<width, height, currentMaze, scores, pc, m, gen, reply,
                   okMoves, strategy, times>>

\* One run of the solver on the grids of at most MaxLossyCells rooms.
LossyConfigs ==
    {c \in (2..MaxLossyCells) \X (2..MaxLossyCells) \X {1} :
        c[1] * c[2] <= MaxLossyCells}

LossyInit ==
    /\ \E c \in LossyConfigs : width = c[1] /\ height = c[2] /\ times = c[3]
    /\ currentMaze = <<>>
    /\ scores = <<>>
    /\ pc = "idle"
    /\ m = <<>>
    /\ gen = ZeroGen
    /\ req = NoReq
    /\ reply = NoReply
    /\ okMoves = 0
    /\ strategy = ""
    /\ nav = [NavIdle EXCEPT !.pc = "run"]
    /\ hist = NoHist

LossyNext ==
    \/ IcarusNext /\ Len(nav'.stack) <= MaxDepth
    \/ nextMoveTryLost

SpecLossy == LossyInit /\ [][LossyNext]_vars

\* The steps of nextMove.
nextMove ==
    \/ nextMoveEnter
    \/ nextMoveTry
    \/ nextMoveExhausted
    \/ nextMoveBack
    \/ nextMoveTrue

\* The solver is a sequential program: a call of nextMove that can take a step
\* takes it.
SpecIcarusFair == SpecIcarus /\ WF_vars(nextMove)

----------------------------------------------------------------------------
(* What the properties speak of *)

\* The wall of room c on side d.
WallOf(z, c, d) ==
    LET w == z.rooms[c.Y][c.X].Walls IN
    CASE d = "up" -> w.Top
      [] d = "right" -> w.Right
      [] d = "down" -> w.Bottom
      [] d = "left" -> w.Left

\* The cell next to c on side d.
Beside(c, d) ==
    CASE d = "up" -> Coordinate(c.X, c.Y - 1)
      [] d = "right" -> Coordinate(c.X + 1, c.Y)
      [] d = "down" -> Coordinate(c.X, c.Y + 1)
      [] d = "left" -> Coordinate(c.X - 1, c.Y)

InGrid(z, c) == InRooms(z, c.X, c.Y)

CellsOf(z) == {Coordinate(cx, cy) : cx \in 0..(Width(z) - 1), cy \in 0..(Height(z) - 1)}

\* The cells one move away from c: across a side of c without a wall, inside
\* the grid.
OneMove(z, c) ==
    {Beside(c, d) : d \in {e \in Directions : ~WallOf(z, c, e) /\ InGrid(z, Beside(c, e))}}

\* The number of moves of a shortest path from the cells of layer to cell b, n
\* moves being behind; -1 when there is no path.
RECURSIVE Walk(_, _, _, _, _)
Walk(z, layer, seen, b, n) ==
    IF b \in layer THEN n
    ELSE IF layer = {} THEN -1
    ELSE LET next == (UNION {OneMove(z, c) : c \in layer}) \ (seen \cup layer)
         IN  Walk(z, next, seen \cup layer, b, n + 1)

PathLength(z, a, b) == Walk(z, {a}, {}, b, 0)

StartRooms(z) == {c \in CellsOf(z) : z.rooms[c.Y][c.X].Start}

TreasureRooms(z) == {c \in CellsOf(z) : z.rooms[c.Y][c.X].Treasure}

\* The number of passages of the maze: sides without a wall, counted from the
\* room on their left or above them.
Passages(z) ==
    Cardinality({c \in CellsOf(z) : InGrid(z, Beside(c, "right")) /\ ~WallOf(z, c, "right")})
    + Cardinality({c \in CellsOf(z) : InGrid(z, Beside(c, "down")) /\ ~WallOf(z, c, "down")})

OnTreasure(z) == z.icarus = z.end

\* The step is the handling of a move request in a session.
MoveStep == pc = "idle" /\ pc' = "idle" /\ currentMaze # <<>> /\ req'.op = "move"

----------------------------------------------------------------------------
(* Properties *)

\* C1: off the treasure, a move towards a side with a wall, or towards a cell
\* outside the grid, is answered with an error and changes neither Icarus's
\* coordinate nor StepsTaken; the wall is tested first, so that at a wall the
\* error is the wall's even when the cell beyond is outside the grid.
C1_MoveRejected ==
    [][(MoveStep /\ req'.dir \in Directions /\ ~OnTreasure(currentMaze[1])
        /\ (WallOf(currentMaze[1], currentMaze[1].icarus, req'.dir)
            \/ ~InGrid(currentMaze[1], Beside(currentMaze[1].icarus, req'.dir))))
       => /\ reply'.Error
          /\ currentMaze'[1].icarus = currentMaze[1].icarus
          /\ currentMaze'[1].StepsTaken = currentMaze[1].StepsTaken
          /\ reply'.Message =
                IF WallOf(currentMaze[1], currentMaze[1].icarus, req'.dir)
                THEN ErrWall ELSE ErrBounds]_vars

\* C1, its case: a move was rejected for a wall on the rim of the grid.
C1_Witness ==
    /\ currentMaze # <<>>
    /\ req.op = "move"
    /\ req.dir \in Directions
    /\ ~OnTreasure(currentMaze[1])
    /\ ~InGrid(currentMaze[1], Beside(currentMaze[1].icarus, req.dir))
    /\ reply.Error
    /\ reply.Message = ErrWall

\* C2: in a session StepsTaken is the number of Move calls that succeeded; a
\* move that succeeds adds 1 and takes Icarus to the cell beside him in the
\* direction asked, any other request leaves both as they were, and
\* StepsTaken never decreases.
C2_StepsCountMoves ==
    [][/\ currentMaze' # <<>> => okMoves' = currentMaze'[1].StepsTaken
       /\ MoveStep =>
            IF req'.dir \in Directions /\ ~reply'.Error
            THEN /\ currentMaze'[1].StepsTaken = currentMaze[1].StepsTaken + 1
                 /\ currentMaze'[1].icarus = Beside(currentMaze[1].icarus, req'.dir)
            ELSE /\ currentMaze'[1].StepsTaken = currentMaze[1].StepsTaken
                 /\ currentMaze'[1].icarus = currentMaze[1].icarus]_vars

\* C2, its case: moves have succeeded and the last one was rejected.
C2_Witness ==
    /\ currentMaze # <<>>
    /\ currentMaze[1].StepsTaken >= 3
    /\ okMoves = currentMaze[1].StepsTaken
    /\ req.op = "move"
    /\ reply.Error

\* C3: in a session LookAround gives ErrVictory, with an empty survey, exactly
\* when Icarus's coordinate is the treasure's, and otherwise the walls of the
\* room Icarus is in; the reply to a move that succeeded says the same.
C3_VictoryExact ==
    currentMaze # <<>> =>
        LET z == currentMaze[1]
            l == LookAround(z)
        IN  /\ InGrid(z, z.icarus)
            /\ (l.e = ErrVictory) <=> (z.icarus = z.end)
            /\ l.e = ErrVictory => l.s = NoWalls
            /\ l.e # ErrVictory =>
                    l.e = NoErr /\ l.s = z.rooms[z.icarus.Y][z.icarus.X].Walls
            /\ (req.op = "move" /\ pc = "idle" /\ reply.status = 200) =>
                    /\ reply.Victory <=> (z.icarus = z.end)
                    /\ ~reply.Victory =>
                            reply.Survey = z.rooms[z.icarus.Y][z.icarus.X].Walls

\* C3, its case: a move has brought Icarus onto the treasure.
C3_Witness ==
    /\ currentMaze # <<>>
    /\ req.op = "move"
    /\ reply.Victory
    /\ currentMaze[1].icarus = currentMaze[1].end
    /\ currentMaze[1].StepsTaken >= 2

\* C4: once Icarus is on the treasure, a move in any of the four directions is
\* rejected with the victory error, and no request changes the maze: Icarus
\* stays on the treasure and StepsTaken stays.
C4_AfterVictory ==
    [][(MoveStep /\ OnTreasure(currentMaze[1]))
       => /\ currentMaze' = currentMaze
          /\ req'.dir \in Directions =>
                reply'.Error /\ reply'.Message = ErrVictory /\ ~reply'.Victory]_vars

\* C4, its case: a move was asked for on the treasure and rejected.
C4_Witness ==
    /\ currentMaze # <<>>
    /\ OnTreasure(currentMaze[1])
    /\ req.op = "move"
    /\ req.dir \in Directions
    /\ reply.Error
    /\ reply.Message = ErrVictory

\* C5: in every maze createMaze returns, whatever the generator and the draws,
\* the treasure room can be reached from the start room by moves across sides
\* without a wall.
C5_TreasureReachable ==
    currentMaze # <<>> =>
        \A a \in StartRooms(currentMaze[1]) :
            PathLength(currentMaze[1], a, currentMaze[1].end) >= 0

\* C5, its case: a maze of createGrowingTree whose treasure is 4 moves or more
\* from the start.
C5_Witness ==
    /\ currentMaze # <<>>
    /\ strategy = "createGrowingTree"
    /\ \E a \in StartRooms(currentMaze[1]) :
            PathLength(currentMaze[1], a, currentMaze[1].end) >= 4

\* Two rooms side by side, or one above the other, agree on the wall between
\* them.
Symmetric(z) ==
    \A c \in CellsOf(z) :
        /\ InGrid(z, Beside(c, "right")) =>
                WallOf(z, c, "right") = WallOf(z, Beside(c, "right"), "left")
        /\ InGrid(z, Beside(c, "down")) =>
                WallOf(z, c, "down") = WallOf(z, Beside(c, "down"), "up")

\* C6: after every carve of the three generators, and in the maze returned,
\* the walls are symmetric.
C6_WallSymmetry ==
    /\ m # <<>> => Symmetric(m[1])
    /\ currentMaze # <<>> => Symmetric(currentMaze[1])

\* C6, its case: createGrowingTree in the middle of its carving.
C6_Witness ==
    /\ pc = "growing"
    /\ Len(gen.cells) >= 3
    /\ Passages(m[1]) >= 4
    /\ Symmetric(m[1])

\* The reply to awake has arrived and no move was asked for yet.
JustAwake == currentMaze # <<>> /\ pc = "idle" /\ req.op = "awake"

\* C7: a maze createMaze returned has one room with Start and one with
\* Treasure, not the same room; end is the Treasure room and Icarus awakes in
\* the Start room; awake is not answered with a victory.
C7_StartAndTreasure ==
    currentMaze # <<>> =>
        LET z == currentMaze[1] IN
        /\ Cardinality(StartRooms(z)) = 1
        /\ TreasureRooms(z) = {z.end}
        /\ StartRooms(z) # TreasureRooms(z)
        /\ JustAwake => StartRooms(z) = {z.icarus} /\ reply.status = 200
                        /\ ~reply.Victory /\ ~OnTreasure(z)

\* C7, its case: Icarus has just awoken, away from the corner.
C7_Witness ==
    /\ JustAwake
    /\ currentMaze[1].icarus = Coordinate(1, 1)
    /\ currentMaze[1].end = Coordinate(0, 0)
    /\ currentMaze[1].rooms[1][1].Start

\* The outermost nextMove is being entered with the survey of awake.
SolveBegins == currentMaze # <<>> /\ nav.pc = "enter" /\ Len(nav.stack) = 0

\* The outermost nextMove has returned true: a move was answered with victory.
SolveWon ==
    /\ currentMaze # <<>>
    /\ nav.pc = "ret"
    /\ Len(nav.stack) = 0
    /\ nav.ret
    /\ reply.Victory
    /\ OnTreasure(currentMaze[1])

\* C8: on a maze of createBinaryTree, whatever the start, the treasure and the
\* shuffles, the solver started with the survey of awake comes to the point
\* where a move is answered with victory and the outermost nextMove returns
\* true: it neither runs for ever nor returns false.
C8_SolverReachesVictory ==
    (SolveBegins /\ strategy = "createBinaryTree") ~> SolveWon

\* C8, its case: on a maze of createBinaryTree the solver has won after going
\* back at least once.
C8_Witness ==
    /\ SolveWon
    /\ strategy = "createBinaryTree"
    /\ currentMaze[1].StepsTaken
          > PathLength(currentMaze[1], CHOOSE a \in StartRooms(currentMaze[1]) : TRUE,
                       currentMaze[1].end)

\* The moves of the path from the start room to the treasure.
StartToTreasure(z) == PathLength(z, CHOOSE a \in StartRooms(z) : TRUE, z.end)

\* C9 as the specification states it: when victory is signalled StepsTaken is
\* at most twice the length of the path from the start to the treasure.
C9_TwicePathLength ==
    (currentMaze # <<>> /\ nav.pc # "off" /\ reply.Victory) =>
        currentMaze[1].StepsTaken <= 2 * StartToTreasure(currentMaze[1])

\* C9, amended: when victory is signalled StepsTaken is at most twice the
\* number of passages of the maze less the length of the path from the start
\* to the treasure; every passage off the path is walked at most twice, every
\* passage of the path once.
C9_TwicePassages ==
    (currentMaze # <<>> /\ nav.pc # "off" /\ reply.Victory) =>
        /\ Passages(currentMaze[1]) = width * height - 1
        /\ currentMaze[1].StepsTaken
              <= 2 * Passages(currentMaze[1]) - StartToTreasure(currentMaze[1])

\* C9, its case: victory after more than twice the moves of the path.
C9_Witness ==
    /\ SolveWon
    /\ currentMaze[1].StepsTaken > 2 * StartToTreasure(currentMaze[1])
    /\ currentMaze[1].StepsTaken
          = 2 * Passages(currentMaze[1]) - StartToTreasure(currentMaze[1])

\* C10: on a grid one room wide or one room high createMaze runs to its end:
\* it is left neither by the panic of rand.Intn over an empty range nor by
\* that of an index outside the rooms.
C10_NoRuntimeFailure ==
    (width = 1 \/ height = 1) => reply.panic \notin {"Intn", "index"}

\* C11: a move whose token is none of up, down, left, right is answered with a
\* failure and leaves Icarus's coordinate and StepsTaken as they were, in the
\* handler of the server as in Move of the client, which fails with "invalid
\* direction" whatever the server would have answered.
C11_InvalidDirection ==
    [][(MoveStep /\ req'.dir \notin Directions)
       => /\ reply'.Error
          /\ reply'.status # 200
          /\ ~reply'.Victory
          /\ currentMaze'[1].icarus = currentMaze[1].icarus
          /\ currentMaze'[1].StepsTaken = currentMaze[1].StepsTaken
          /\ Move(req'.dir, reply').err = "invalid direction"]_vars

\* p is q or the beginning of q.
IsPrefix(p, q) == Len(p) <= Len(q) /\ SubSeq(q, 1, Len(p)) = p

\* C12: RunIcarus with times = N sends N awake requests, each followed by one
\* call of the solver, and then one done request; no step, an awake least of
\* all, removes or changes an entry of scores; after each run, and when done
\* is handled, scores holds one entry per run, the i-th being StepsTaken of
\* the i-th run at the move that was answered with victory.
C12_DriverRuns ==
    [][/\ IsPrefix(scores, scores')
       /\ hist'.awakes = nav'.x + (IF nav'.pc \in {"run", "done"} THEN 0 ELSE 1)
       /\ hist'.dones = (IF pc' = "exit" THEN 1 ELSE 0)
       /\ nav'.pc \in {"run", "done"} =>
             /\ Len(scores') = nav'.x
             /\ scores' = hist'.won
       /\ pc' = "exit" =>
             /\ hist'.awakes = times
             /\ nav'.x = times
             /\ Len(scores') = times
             /\ req'.op = "done"]_vars

\* C12, its case: done is handled after two runs that took different numbers
\* of steps.
C12_Witness ==
    /\ pc = "exit"
    /\ times = 2
    /\ hist.awakes = 2
    /\ Len(scores) = 2
    /\ scores[1] # scores[2]

\* The step is a call of Move by the loop of nextMove that failed otherwise
\* than by victory: the request was lost or the server answered with an error.
MoveFailed ==
    /\ nav.pc = "loop"
    /\ \/ req'.op = "lost" /\ hist'.lost = hist.lost + 1
       \/ req'.op = "move" /\ reply'.Error

\* C13: when Move(d) fails inside the loop of nextMove otherwise than by
\* victory, nextMove goes on to its next candidate: it does not call
\* nextMove(result, d), so no move follows on account of d, neither one that
\* explores nor the one opposite to d.
C13_FailedMoveSkipped ==
    [][MoveFailed
       => /\ nav'.pc = "loop"
          /\ Len(nav'.stack) = Len(nav.stack)
          /\ nav'.stack[Len(nav.stack)].possibilities
                = Tail(nav.stack[Len(nav.stack)].possibilities)]_vars

\* The cell reached from c along the directions the first i open calls of
\* nextMove are exploring.
RECURSIVE Follow(_, _, _)
Follow(c, stack, i) ==
    IF i = 0 THEN c ELSE Beside(Follow(c, stack, i - 1), stack[i].d)

\* The cell Icarus was in when awake returned.
AwakeCell(z) == CHOOSE c \in StartRooms(z) : TRUE

\* Where the solver stands: a call of nextMove is entered with the walls of
\* Icarus's room, Icarus being where the moves of the open calls lead; between
\* two candidates, and after a call has returned false, Icarus is in the cell
\* where that call began.
SolverInPlace ==
    (currentMaze # <<>> /\ Symmetric(currentMaze[1])) =>
        LET z == currentMaze[1]
            n == Len(nav.stack)
        IN  /\ nav.pc = "enter" =>
                  /\ z.icarus = Follow(AwakeCell(z), nav.stack, n)
                  /\ nav.s = Discover(z, z.icarus.X, z.icarus.Y)
            /\ nav.pc = "loop" =>
                  /\ nav.stack[n].d = ""
                  /\ z.icarus = Follow(AwakeCell(z), nav.stack, n - 1)
            /\ (nav.pc = "ret" /\ ~nav.ret) =>
                  z.icarus = Follow(AwakeCell(z), nav.stack, n)

\* C14: on a maze with wall symmetry every call nextMove(s, dir) is entered
\* with s the walls of Icarus's room; when a call returns false Icarus is back
\* in the cell where the call began; and every move the solver sends, forward
\* or back, is accepted: it is answered without error and counts as a step.
C14_SolverMovesAccepted ==
    [][/\ SolverInPlace'
       /\ (nav.pc \in {"loop", "ret"} /\ req'.op = "move"
           /\ Symmetric(currentMaze[1]))
          => /\ ~reply'.Error
             /\ reply'.status = 200
             /\ currentMaze'[1].icarus = Beside(currentMaze[1].icarus, req'.dir)
             /\ currentMaze'[1].StepsTaken = currentMaze[1].StepsTaken + 1]_vars

\* C14, its case: a call of nextMove two calls deep has returned false once
\* more, after a step had been taken back before, and Icarus is in the cell
\* where it began.
C14_Witness ==
    /\ currentMaze # <<>>
    /\ Symmetric(currentMaze[1])
    /\ nav.pc = "ret"
    /\ ~nav.ret
    /\ Len(nav.stack) >= 2
    /\ currentMaze[1].StepsTaken >= Len(nav.stack) + 2
    /\ currentMaze[1].icarus
          = Follow(AwakeCell(currentMaze[1]), nav.stack, Len(nav.stack))

\* Room c has a passage to the room on its right, to the room below it.
CarvedEast(z, c) == InGrid(z, Beside(c, "right")) /\ ~WallOf(z, c, "right")

CarvedSouth(z, c) == InGrid(z, Beside(c, "down")) /\ ~WallOf(z, c, "down")

\* The rooms that can be walked to from the rooms of layer, those of seen
\* being counted already.
RECURSIVE Flood(_, _, _)
Flood(z, layer, seen) ==
    IF layer = {} THEN seen
    ELSE Flood(z, (UNION {OneMove(z, c) : c \in layer}) \ (seen \cup layer),
               seen \cup layer)

\* Every room can be walked to from room (0, 0).
Connected(z) == Flood(z, {Coordinate(0, 0)}, {}) = CellsOf(z)

\* Connected by as many passages as there are rooms but one: no cycle.
SpanningTree(z) ==
    /\ Symmetric(z)
    /\ Connected(z)
    /\ Passages(z) = Width(z) * Height(z) - 1

\* The generator drawn has returned and the treasure is not placed yet.
Generated(name) == pc = "place" /\ strategy = name

\* C15: the maze createBinaryTree returns is a spanning tree whatever the
\* draws: the bottom-right room carves nothing, a room of the last column
\* carves south, a room of the last row carves east, every other room carves
\* either east or south and not both; so there are width*height-1 passages,
\* every room is reachable and there is no cycle.
C15_BinaryTreeSpans ==
    Generated("createBinaryTree") =>
        LET z == m[1] IN
        /\ \A c \in CellsOf(z) :
              IF c.X = Width(z) - 1 /\ c.Y = Height(z) - 1
              THEN ~CarvedEast(z, c) /\ ~CarvedSouth(z, c)
              ELSE IF c.X = Width(z) - 1 THEN CarvedSouth(z, c)
              ELSE IF c.Y = Height(z) - 1 THEN CarvedEast(z, c)
              ELSE CarvedEast(z, c) # CarvedSouth(z, c)
        /\ SpanningTree(z)

\* C15, its case: createBinaryTree has returned a 3x3 maze where one free room
\* carved east and another south.
C15_Witness ==
    /\ Generated("createBinaryTree")
    /\ width = 3
    /\ height = 3
    /\ CarvedEast(m[1], Coordinate(0, 0))
    /\ CarvedSouth(m[1], Coordinate(1, 1))

\* C16: when the scan of createBinaryTreeWithHoles stands on a room that is in
\* neither the last row nor the last column, the draw can carve east only,
\* south only, or both east and south from that room (and a room carved both
\* ways closes a cycle on a grid of 2x2 or more).
C16_ThreeOutcomes ==
    (pc = "holes" /\ gen.x < Width(m[1]) - 1 /\ gen.y < Height(m[1]) - 1) =>
        /\ ENABLED (/\ createBinaryTreeWithHolesStep
                    /\ CarvedEast(m'[1], Coordinate(gen.x, gen.y))
                    /\ ~CarvedSouth(m'[1], Coordinate(gen.x, gen.y)))
        /\ ENABLED (/\ createBinaryTreeWithHolesStep
                    /\ ~CarvedEast(m'[1], Coordinate(gen.x, gen.y))
                    /\ CarvedSouth(m'[1], Coordinate(gen.x, gen.y)))
        /\ ENABLED (/\ createBinaryTreeWithHolesStep
                    /\ CarvedEast(m'[1], Coordinate(gen.x, gen.y))
                    /\ CarvedSouth(m'[1], Coordinate(gen.x, gen.y)))

\* The neighbours of cell a inside the grid that are not marked visited.
Unvisited(z, visited, a) ==
    {c \in {Beside(a, d) : d \in Directions} : InGrid(z, c) /\ ~visited[c.X][c.Y]}

\* One iteration of the frontier loop, from the frontier cells, the maze z and
\* visited to cells2, z2 and visited2: with no unvisited neighbour the newest
\* cell is popped and nothing else changes; otherwise one unvisited neighbour
\* is carved to, marked and pushed, and nothing else changes.
FrontierStep(cells, z, visited, cells2, z2, visited2) ==
    LET a == cells[Len(cells)] IN
    IF Unvisited(z, visited, a) = {}
    THEN /\ cells2 = SubSeq(cells, 1, Len(cells) - 1)
         /\ z2 = z
         /\ visited2 = visited
    ELSE \E d \in Directions :
            LET c == Beside(a, d) IN
            /\ c \in Unvisited(z, visited, a)
            /\ cells2 = Append(cells, c)
            /\ visited2 = [visited EXCEPT ![c.X][c.Y] = TRUE]
            /\ ~WallOf(z2, a, d)
            /\ ~WallOf(z2, c, opposite(d))
            /\ Passages(z2) = Passages(z) + 1
            /\ \A e \in CellsOf(z) \ {a, c} : z2.rooms[e.Y][e.X] = z.rooms[e.Y][e.X]

\* C17: the frontier loop of createGrowingTree comes to its end; each of its
\* iterations either pops the newest frontier cell, which then has no
\* unvisited neighbour, or carves to one unvisited neighbour, marks it and
\* pushes it; and when the frontier is empty every room is marked visited and
\* connected to the others, the seed among them, by the passages carved.
C17_FrontierLoop ==
    /\ (pc = "growing") ~> (pc = "place" /\ gen.cells = <<>>)
    /\ [][pc = "growing" =>
             FrontierStep(gen.cells, m[1], gen.visited, gen'.cells, m'[1], gen'.visited)]_vars
    /\ [](Generated("createGrowingTree") =>
             /\ gen.cells = <<>>
             /\ \A c \in CellsOf(m[1]) : gen.visited[c.X][c.Y]
             /\ SpanningTree(m[1]))

\* C17, its case: createGrowingTree has returned a 3x3 maze with a room of
\* three passages, so that the loop came back to a cell it had left.
C17_Witness ==
    /\ Generated("createGrowingTree")
    /\ width = 3
    /\ height = 3
    /\ gen.cells = <<>>
    /\ \E c \in CellsOf(m[1]) : Cardinality(OneMove(m[1], c)) >= 3

\* C18: in a maze createMaze returned the Start room and the Treasure room lie
\* in neither the last row nor the last column, and the sum of the Start
\* room's coordinates differs from the sum of the Treasure room's.
C18_PlacementRegion ==
    (currentMaze # <<>> /\ width >= 2 /\ height >= 2) =>
        LET z == currentMaze[1] IN
        \A a \in StartRooms(z), b \in TreasureRooms(z) :
            /\ a.X \in 0..(width - 2) /\ a.Y \in 0..(height - 2)
            /\ b.X \in 0..(width - 2) /\ b.Y \in 0..(height - 2)
            /\ a.X + a.Y # b.X + b.Y
            /\ b = z.end

\* C18, its case: awake has returned a 3x3 maze with Start in room (1, 1) and
\* Treasure next to it in room (0, 1).
C18_Witness ==
    /\ JustAwake
    /\ width = 3
    /\ height = 3
    /\ Coordinate(1, 1) \in StartRooms(currentMaze[1])
    /\ Coordinate(0, 1) \in TreasureRooms(currentMaze[1])
    /\ currentMaze[1].icarus = Coordinate(1, 1)

C20_OneScorePerVictory ==
    [][/\ scores' # scores =>
             /\ MoveStep
             /\ ~OnTreasure(currentMaze[1])
             /\ OnTreasure(currentMaze'[1])
             /\ scores' = Append(scores, currentMaze'[1].StepsTaken)
       /\ (MoveStep /\ OnTreasure(currentMaze[1])) => scores' = scores
       /\ scores' = hist'.won]_vars

\* The resample loop can be left: its condition is false, or a draw of the
\* start makes it false.
CanLeaveResample ==
    \/ ~TooClose(gen)
    \/ ENABLED (createMazeResample /\ ~TooClose(gen'))

\* C21: on a grid at least two rooms wide and high the resample loop of
\* createMaze can be left exactly when the region the start and the treasure
\* are drawn from, [0, width-1) x [0, height-1), holds two rooms or more; on a
\* 2x2 grid both are drawn in room (0, 0), the condition of the loop is true
\* after every draw, and createMaze never returns: awake is not answered and
\* currentMaze stays nil.
C21_ResampleExit ==
    (width >= 2 /\ height >= 2) =>
        /\ pc = "resample" =>
              (CanLeaveResample <=> (width - 1) * (height - 1) >= 2)
        /\ (width = 2 /\ height = 2) =>
              /\ currentMaze = <<>>
              /\ reply.status # 200
              /\ pc = "resample" =>
                    /\ gen.xs = 0 /\ gen.ys = 0 /\ gen.xt = 0 /\ gen.yt = 0
                    /\ TooClose(gen)
                    /\ ~ENABLED createMazeReturn

\* C21, its case: on a 2x2 grid the handler of awake stands in the resample
\* loop, which it can repeat and cannot leave.
C21_Witness ==
    /\ width = 2
    /\ height = 2
    /\ pc = "resample"
    /\ req.op = "awake"
    /\ TooClose(gen)
    /\ ENABLED createMazeResample
    /\ ~CanLeaveResample

====
